---- MODULE Spec2Model ----
(***************************************************************************)
(* Multi-flight recapture method (revpy/mfrm.py).                          *)
(*                                                                         *)
(* The module is a library of pure functions.  A behaviour of the model is *)
(* one call: Init draws the function (op) and its arguments (args), the    *)
(* function's actions run it to its end and record how it ended (outcome:  *)
(* a returned value or a raised error) and the heap it leaves behind.      *)
(* estimate_class_level runs in steps (the host-level solve, one pass of   *)
(* the loop per product, the calibration), with its local variables in     *)
(* frame; the other functions run in one step.                             *)
(*                                                                         *)
(* Numbers are exact rationals <<numerator, denominator>> in lowest terms  *)
(* with a positive denominator; floating-point rounding is not modelled.   *)
(* The non-finite values NumPy scalars produce on a division by zero have  *)
(* denominator 0: NaN is <<0, 0>> and +inf, -inf are <<1, 0>>, <<-1, 0>>.  *)
(***************************************************************************)
EXTENDS Integers, Sequences, FiniteSets, TLC

VARIABLES op, args, heap, frame, outcome, pc

vars == <<op, args, heap, frame, outcome, pc>>

(***************************************************************************)
(* Bounds of the explored inputs.                                          *)
(***************************************************************************)
\* products are 1..MaxProducts
MaxProducts == 2
\* observed demands are 0, 1 and MaxObserved
MaxObserved == 3
\* availabilities and probabilities of a product are k/Grid, 0 <= k <= Grid
Grid == 2
\* close_prob, recapture_rate and market_share are k/RateGrid, 0 <= k <= RateGrid
RateGrid == 4
\* utilities are -MaxUtility..MaxUtility
MaxUtility == 1
\* odemand of a direct call of demand_mass_balance_h is 0..MaxDemand
MaxDemand == 2

(***************************************************************************)
(* Exact rational arithmetic.                                              *)
(***************************************************************************)
Abs(n) == IF n < 0 THEN -n ELSE n

RECURSIVE GCD(_, _)
GCD(a, b) == IF b = 0 THEN a ELSE GCD(b, a % b)

\* n/d in lowest terms, d # 0
Q(n, d) ==
    LET g == GCD(Abs(n), Abs(d))
        s == IF d < 0 THEN -1 ELSE 1
    IN  <<s * (n \div g), s * (d \div g)>>

R(n) == <<n, 1>>
Zero == R(0)
One == R(1)
NaN == <<0, 0>>

Sign(n) == IF n < 0 THEN -1 ELSE IF n > 0 THEN 1 ELSE 0
IsFinite(a) == a[2] # 0
RNeg(a) == <<-a[1], a[2]>>
RAdd(a, b) ==
    IF IsFinite(a) /\ IsFinite(b) THEN Q(a[1] * b[2] + b[1] * a[2], a[2] * b[2])
    ELSE IF IsFinite(b) \/ a = b THEN a
    ELSE IF IsFinite(a) THEN b
    ELSE NaN
RSub(a, b) == RAdd(a, RNeg(b))
RMul(a, b) ==
    IF IsFinite(a) /\ IsFinite(b) THEN Q(a[1] * b[1], a[2] * b[2])
    ELSE <<Sign(a[1] * b[1]), 0>>
\* a / b for b # 0
RDiv(a, b) == Q(a[1] * b[2], a[2] * b[1])
\* a / b of NumPy float64 scalars: a zero divisor gives NaN or an infinity
NpDiv(a, b) == IF b[1] = 0 THEN <<Sign(a[1]), 0>> ELSE RDiv(a, b)
RLt(a, b) == a[1] * b[2] < b[1] * a[2]
RLe(a, b) == a[1] * b[2] <= b[1] * a[2]
RAbs(a) == <<Abs(a[1]), a[2]>>
\* a == b of floats: NaN equals nothing
REq(a, b) == a = b /\ a # NaN

\* sum of f[k] over k in S
RECURSIVE RSum(_, _)
RSum(f, S) ==
    IF S = {} THEN Zero
    ELSE LET k == CHOOSE x \in S : TRUE
         IN  RAdd(f[k], RSum(f, S \ {k}))

(***************************************************************************)
(* How a call ends.                                                        *)
(***************************************************************************)
Return(v) == [kind |-> "return", value |-> v]
Raise(e) == [kind |-> "raise", error |-> e]
Returned(o) == o.kind = "return"
Raised(o, e) == o.kind = "raise" /\ o.error = e

(***************************************************************************)
(* scipy.linalg.solve(A, B): LU factorisation with partial pivoting of the *)
(* n x n matrix A (a sequence of rows), then substitution.  An exactly     *)
(* zero pivot is reported as a singular matrix (LinAlgError).  M is the    *)
(* augmented matrix [A | B].                                               *)
(***************************************************************************)
\* the first row among k..n whose entry in column k is largest in magnitude
PivotRow(M, k, n) ==
    CHOOSE p \in k..n :
        /\ \A q \in k..n : RLe(RAbs(M[q][k]), RAbs(M[p][k]))
        /\ \A q \in k..(p - 1) : RLt(RAbs(M[q][k]), RAbs(M[p][k]))

SwapRows(M, i, j) == [M EXCEPT ![i] = M[j], ![j] = M[i]]

\* subtract multiples of row k from the rows below it to clear column k
EliminateBelow(M, k, n) ==
    [i \in 1..n |->
        IF i <= k THEN M[i]
        ELSE LET f == RDiv(M[i][k], M[k][k])
             IN  [j \in 1..(n + 1) |-> RSub(M[i][j], RMul(f, M[k][j]))]]

\* forward elimination from column k on, stopping at a zero pivot
RECURSIVE Factor(_, _, _)
Factor(M, k, n) ==
    IF k > n THEN [singular |-> FALSE, U |-> M]
    ELSE LET p == PivotRow(M, k, n)
         IN  IF M[p][k] = Zero THEN [singular |-> TRUE, U |-> M]
             ELSE Factor(EliminateBelow(SwapRows(M, k, p), k, n), k + 1, n)

\* back substitution on the upper-triangular U: x[i] for rows i..n
RECURSIVE BackSubstitute(_, _, _)
BackSubstitute(U, i, n) ==
    IF i > n THEN [j \in {} |-> Zero]
    ELSE LET rest == BackSubstitute(U, i + 1, n)
             tail == RSum([j \in (i + 1)..n |-> RMul(U[i][j], rest[j])], (i + 1)..n)
             xi == RDiv(RSub(U[i][n + 1], tail), U[i][i])
         IN  [j \in i..n |-> IF j = i THEN xi ELSE rest[j]]

solve(A, B) ==
    LET n == Len(A)
        M == [i \in 1..n |-> [j \in 1..(n + 1) |-> IF j <= n THEN A[i][j] ELSE B[i]]]
        lu == Factor(M, 1, n)
    IN  IF lu.singular THEN Raise("LinAlgError")
        ELSE LET x == BackSubstitute(lu.U, 1, n)
             IN  Return([i \in 1..n |-> x[i]])

(***************************************************************************)
(* demand_mass_balance_h(odemand, close_prob, recapture_rate)              *)
(***************************************************************************)
\* the bug "recapture enters the conservation row with the wrong sign"
demand_mass_balance_h_recapture_sign(odemand, close_prob, recapture_rate) ==
    LET A == << <<One, RNeg(One), RNeg(One)>>,
                <<RNeg(close_prob), One, Zero>>,
                <<Zero, RNeg(recapture_rate), One>> >>
        B == <<odemand, Zero, Zero>>
        s == solve(A, B)
    IN  IF Returned(s) THEN Return(<<s.value[1], s.value[2], s.value[3]>>) ELSE s

\* the bug "close_prob enters the spill row with the wrong sign"
demand_mass_balance_h_close_sign(odemand, close_prob, recapture_rate) ==
    LET A == << <<One, RNeg(One), One>>,
                <<close_prob, One, Zero>>,
                <<Zero, RNeg(recapture_rate), One>> >>
        B == <<odemand, Zero, Zero>>
        s == solve(A, B)
    IN  IF Returned(s) THEN Return(<<s.value[1], s.value[2], s.value[3]>>) ELSE s

demand_mass_balance_h(odemand, close_prob, recapture_rate) ==
    LET A == << <<One, RNeg(One), One>>,
                <<RNeg(close_prob), One, Zero>>,
                <<Zero, RNeg(recapture_rate), One>> >>
        B == <<odemand, Zero, Zero>>
        s == solve(A, B)
    IN  IF Returned(s) THEN Return(<<s.value[1], s.value[2], s.value[3]>>) ELSE s

(***************************************************************************)
(* Dictionaries are functions on a set of product keys.                    *)
(***************************************************************************)
\* d.get(k, default)
Get(d, k, default) == IF k \in DOMAIN d THEN d[k] ELSE default

\* sum(d.values())
SumValues(d) == RSum(d, DOMAIN d)

\* the keys of a dictionary in iteration order (ascending product number)
RECURSIVE KeysInOrder(_)
KeysInOrder(S) ==
    IF S = {} THEN <<>>
    ELSE LET m == CHOOSE x \in S : \A y \in S : x <= y
         IN  <<m>> \o KeysInOrder(S \ {m})

Estimate(d, s, r) == [demand |-> d, spill |-> s, recapture |-> r]

(***************************************************************************)
(* demand_mass_balance_c(host_odemand, class_odemand, avail,               *)
(*                       host_recapture)                                   *)
(* np: host_recapture is a NumPy scalar (it is whenever it comes from      *)
(* solve), so that a zero host_odemand gives a non-finite recapture, which *)
(* solve rejects, where Python numbers raise ZeroDivisionError.            *)
(***************************************************************************)
\* the bug "recapture is added to the observed demand instead of subtracted"
demand_mass_balance_c_recapture_sign(host_odemand, class_odemand, avail, host_recapture, np) ==
    IF class_odemand = Zero THEN Return(<<Zero, Zero, Zero>>)
    ELSE IF host_odemand = Zero
         THEN IF np THEN Raise("ValueError") ELSE Raise("ZeroDivisionError")
    ELSE LET recapture == RDiv(RMul(host_recapture, class_odemand), host_odemand)
             k == RSub(One, avail)
             A == << <<One, RNeg(One)>>, <<RNeg(k), One>> >>
             B == <<RAdd(class_odemand, recapture), Zero>>
             s == solve(A, B)
         IN  IF Returned(s) THEN Return(<<s.value[1], s.value[2], recapture>>) ELSE s

demand_mass_balance_c(host_odemand, class_odemand, avail, host_recapture, np) ==
    IF class_odemand = Zero THEN Return(<<Zero, Zero, Zero>>)
    ELSE IF host_odemand = Zero
         THEN IF np THEN Raise("ValueError") ELSE Raise("ZeroDivisionError")
    ELSE LET recapture == RDiv(RMul(host_recapture, class_odemand), host_odemand)
             k == RSub(One, avail)
             A == << <<One, RNeg(One)>>, <<RNeg(k), One>> >>
             B == <<RSub(class_odemand, recapture), Zero>>
             s == solve(A, B)
         IN  IF Returned(s) THEN Return(<<s.value[1], s.value[2], recapture>>) ELSE s

(***************************************************************************)
(* estimate_host_level(observed, availability, probs, nofly_prob)          *)
(* np: the probabilities are NumPy scalars (as selection_probs returns     *)
(* them) rather than Python floats.                                        *)
(***************************************************************************)
estimate_host_level(observed, availability, probs, nofly_prob, np) ==
    IF DOMAIN probs = {} THEN Return(<<Zero, Zero, Zero>>)
    ELSE LET prob_market_open ==
                 RAdd(nofly_prob,
                      RSum([p \in DOMAIN probs |->
                               RMul(probs[p], Get(availability, p, Zero))],
                           DOMAIN probs))
             total_odemand == SumValues(observed)
         IN  IF prob_market_open = Zero \/ nofly_prob = One
             THEN \* a division by zero: Python floats raise, NumPy scalars
                  \* give a non-finite matrix entry that solve rejects
                  IF np THEN Raise("ValueError") ELSE Raise("ZeroDivisionError")
             ELSE LET recapture_rate ==
                          RDiv(RSub(prob_market_open, nofly_prob), prob_market_open)
                      prob_host_closed ==
                          RDiv(RSub(One, prob_market_open), RSub(One, nofly_prob))
                  IN  demand_mass_balance_h(total_odemand, prob_host_closed,
                                            recapture_rate)

(***************************************************************************)
(* deepcopy(estimates): a new object on the heap with the same content.    *)
(* The heap is a sequence of estimate mappings; a reference is an index.   *)
(***************************************************************************)
\* the bug "no copy is taken": the result is the caller's own object
deepcopy_alias(h, ref) == [heap |-> h, ref |-> ref]

deepcopy(h, ref) == [heap |-> Append(h, h[ref]), ref |-> Len(h) + 1]

(***************************************************************************)
(* calibrate_no_booking(estimates, observed, availability, probs,          *)
(*                      host_spill)                                        *)
(* estimates is a reference into the heap h; the result is the heap after  *)
(* the call and how the call ended (the returned value is a reference).    *)
(***************************************************************************)
\* the products with no observed bookings
NoBooking(est, observed) == {k \in DOMAIN est : Get(observed, k, Zero) = Zero}

\* weight of each product
\* the bug "the weight ignores how often the product was closed"
Weight_open(p, availability, probs) == probs[p]

Weight(p, availability, probs) == RMul(probs[p], RSub(One, Get(availability, p, Zero)))

\* the normalising comprehension evaluates w / sum(weights.values()) once
\* per key of weights, so never when weights is empty
\* the bug "the sum is taken once, before the comprehension"
DividesByZero_hoisted(weights) == SumValues(weights) = Zero

DividesByZero(weights) == DOMAIN weights # {} /\ SumValues(weights) = Zero

\* the bug "the weights are not normalized"
Normalized_raw(weights) == weights

\* normalized weights (NumPy scalars give NaN or an infinity on a zero sum)
Normalized(weights) ==
    [p \in DOMAIN weights |-> NpDiv(weights[p], SumValues(weights))]

UnaccountedSpill(est, host_spill) ==
    RSub(host_spill, RSum([p \in DOMAIN est |-> est[p].spill], DOMAIN est))

calibrate_no_booking(h, estimates, observed, availability, probs, host_spill, np) ==
    LET c == deepcopy(h, estimates)
        est == c.heap[c.ref]
        unaccounted_spill == UnaccountedSpill(est, host_spill)
    IN  IF ~RLt(Zero, unaccounted_spill)
        THEN [heap |-> c.heap, outcome |-> Return(c.ref)]
        ELSE LET zero == NoBooking(est, observed)
             IN  IF \E p \in zero : p \notin DOMAIN probs
                 THEN [heap |-> c.heap, outcome |-> Raise("KeyError")]
                 ELSE LET weights == [p \in zero |-> Weight(p, availability, probs)]
                      IN  IF DividesByZero(weights) /\ ~np
                          THEN [heap |-> c.heap, outcome |-> Raise("ZeroDivisionError")]
                          ELSE LET normalized == Normalized(weights)
                                   new == [p \in DOMAIN est |->
                                              IF p \in zero
                                              THEN [est[p] EXCEPT
                                                      !.spill = RMul(unaccounted_spill, normalized[p]),
                                                      !.demand = RMul(unaccounted_spill, normalized[p])]
                                              ELSE est[p]]
                               IN  [heap |-> [c.heap EXCEPT ![c.ref] = new],
                                    outcome |-> Return(c.ref)]

(***************************************************************************)
(* estimate_class_level(observed, availability, probs, nofly_prob,         *)
(*                      calibrate): the body of its loop                   *)
(***************************************************************************)
\* one pass of the loop body for product: the estimates with the product's
\* entry added, or the error raised
\* the bug "a product without bookings is skipped"
ClassStep_skip(estimates, product, odemand, avail, total_odemand, host_recapture) ==
    IF avail = Zero /\ RLt(Zero, odemand)
    THEN Raise("InvalidInputParameters")
    ELSE IF odemand # Zero
    THEN LET e == demand_mass_balance_c(total_odemand, odemand, avail,
                                        host_recapture, TRUE)
         IN  IF Returned(e)
             THEN Return((product :> Estimate(e.value[1], e.value[2], e.value[3]))
                         @@ estimates)
             ELSE e
    ELSE Return(estimates)

ClassStep(estimates, product, odemand, avail, total_odemand, host_recapture) ==
    IF avail = Zero /\ RLt(Zero, odemand)
    THEN Raise("InvalidInputParameters")
    ELSE IF odemand # Zero
    THEN LET e == demand_mass_balance_c(total_odemand, odemand, avail,
                                        host_recapture, TRUE)
         IN  IF Returned(e)
             THEN Return((product :> Estimate(e.value[1], e.value[2], e.value[3]))
                         @@ estimates)
             ELSE e
    ELSE Return((product :> Estimate(Zero, Zero, Zero)) @@ estimates)

(***************************************************************************)
(* selection_probs(utilities, market_share)                                *)
(* np.exp(u) is a positive weight increasing in u: here 2^u for the        *)
(* integer utilities explored.  exp_sum is a NumPy scalar unless utilities *)
(* is empty, when it is the Python integer 0.                              *)
(***************************************************************************)
exp(u) == IF u >= 0 THEN R(2 ^ u) ELSE Q(1, 2 ^ (-u))

\* the bug "market_share and 1 - market_share are exchanged"
selection_probs_swapped(utilities, market_share) ==
    LET exps == [p \in DOMAIN utilities |-> exp(utilities[p])]
        exp_sum0 == SumValues(exps)
    IN  IF DOMAIN utilities = {}
        THEN Raise("ZeroDivisionError")
        ELSE LET exp_nofly_utility ==
                     NpDiv(RMul(exp_sum0, market_share), RSub(One, market_share))
             IN  IF ~IsFinite(exp_nofly_utility)
                 THEN Return(<<[p \in DOMAIN utilities |-> Zero], NaN>>)
                 ELSE LET exp_sum == RAdd(exp_sum0, exp_nofly_utility)
                          probs == [p \in DOMAIN utilities |-> RDiv(exps[p], exp_sum)]
                          nofly_prob == RDiv(exp_nofly_utility, exp_sum)
                      IN  Return(<<probs, nofly_prob>>)

selection_probs(utilities, market_share) ==
    LET exps == [p \in DOMAIN utilities |-> exp(utilities[p])]
        exp_sum0 == SumValues(exps)
    IN  IF DOMAIN utilities = {}
        THEN \* 0 * (1 - market_share) / market_share, then 0.0 / 0.0
             Raise("ZeroDivisionError")
        ELSE LET exp_nofly_utility ==
                     NpDiv(RMul(exp_sum0, RSub(One, market_share)), market_share)
             IN  IF ~IsFinite(exp_nofly_utility)
                 THEN \* exp_sum is inf: every exp(u) / inf is 0, inf / inf is NaN
                      Return(<<[p \in DOMAIN utilities |-> Zero], NaN>>)
                 ELSE LET exp_sum == RAdd(exp_sum0, exp_nofly_utility)
                          probs == [p \in DOMAIN utilities |-> RDiv(exps[p], exp_sum)]
                          nofly_prob == RDiv(exp_nofly_utility, exp_sum)
                      IN  Return(<<probs, nofly_prob>>)

(***************************************************************************)
(* Inputs.  Whether the probabilities of a call are Python floats or NumPy  *)
(* scalars (np) does not show in their values: an action that divides by   *)
(* them draws it.                                                          *)
(***************************************************************************)
Products == 1..MaxProducts
Unit == {Q(k, Grid) : k \in 0..Grid}
Rates == {Q(k, RateGrid) : k \in 0..RateGrid}
Counts == {R(0), R(1), R(MaxObserved)}
Demands == {R(n) : n \in 0..MaxDemand}

\* the dictionaries with keys among the products S and values in V
Dicts(S, V) == UNION {[K -> V] : K \in SUBSET S}

\* estimate records handed to calibrate_no_booking directly: all zero, or
\* a record with demand - spill + recapture = 1
Entries == {Estimate(Zero, Zero, Zero), Estimate(One, Q(1, 2), Q(1, 2))}

NotYet == [kind |-> "pending"]

InitMassBalanceH ==
    /\ pc = "call"
    /\ outcome = NotYet
    /\ op = "demand_mass_balance_h"
    /\ args \in [odemand : Demands, close_prob : Rates, recapture_rate : Rates]
    /\ heap = <<>>
    /\ frame = <<>>

InitSelectionProbs ==
    /\ pc = "call"
    /\ outcome = NotYet
    /\ op = "selection_probs"
    /\ args \in [utilities : Dicts(Products, (-MaxUtility)..MaxUtility),
                 market_share : Rates]
    /\ heap = <<>>
    /\ frame = <<>>

\* probabilities are positive and, with nofly_prob, sum to at most 1;
\* availability is given for products of the choice model only
InitClassLevel ==
    /\ pc = "call"
    /\ outcome = NotYet
    /\ op = "estimate_class_level"
    /\ \E probs \in Dicts(Products, Unit \ {Zero}), nofly_prob \in Unit :
          /\ RLe(RAdd(SumValues(probs), nofly_prob), One)
          /\ args \in [observed : Dicts(Products, Counts),
                       availability : Dicts(DOMAIN probs, Unit),
                       probs : {probs}, nofly_prob : {nofly_prob},
                       calibrate : BOOLEAN]
    /\ heap = <<>>
    /\ frame = <<>>

\* the caller's estimates mapping is object 1 of the heap
InitCalibrate ==
    /\ pc = "call"
    /\ outcome = NotYet
    /\ op = "calibrate_no_booking"
    /\ \E estimates \in Dicts(Products, Entries) :
          /\ args \in [estimates : {estimates},
                       observed : [DOMAIN estimates -> {Zero, One}],
                       availability : [DOMAIN estimates -> Unit],
                       probs : Dicts(DOMAIN estimates, Unit \ {Zero}),
                       host_spill : Counts]
          /\ RLe(SumValues(args.probs), One)
          /\ heap = <<estimates>>
    /\ frame = <<>>

Call_demand_mass_balance_h ==
    /\ pc = "call"
    /\ op = "demand_mass_balance_h"
    /\ outcome' = demand_mass_balance_h(args.odemand, args.close_prob, args.recapture_rate)
    /\ pc' = "done"
    /\ UNCHANGED <<op, args, heap, frame>>

Call_selection_probs ==
    /\ pc = "call"
    /\ op = "selection_probs"
    /\ outcome' = selection_probs(args.utilities, args.market_share)
    /\ pc' = "done"
    /\ UNCHANGED <<op, args, heap, frame>>

\* lines 84-89: the host-level solve; the estimates mapping is object 1
Class_HostLevel ==
    /\ pc = "call"
    /\ op = "estimate_class_level"
    /\ \E np \in BOOLEAN :
          LET host_estimates == estimate_host_level(args.observed, args.availability,
                                                    args.probs, args.nofly_prob, np)
          IN  IF Returned(host_estimates)
              THEN /\ frame' = [host_spill |-> host_estimates.value[2],
                                host_recapture |-> host_estimates.value[3],
                                total_odemand |-> SumValues(args.observed),
                                keys |-> KeysInOrder(DOMAIN args.probs),
                                i |-> 1]
                   /\ heap' = << <<>> >>
                   /\ pc' = "loop"
                   /\ UNCHANGED outcome
              ELSE /\ outcome' = host_estimates
                   /\ pc' = "done"
                   /\ UNCHANGED <<heap, frame>>
    /\ UNCHANGED <<op, args>>

\* lines 91-112: one pass of the loop over probs.keys()
Class_Loop ==
    /\ pc = "loop"
    /\ frame.i <= Len(frame.keys)
    /\ LET product == frame.keys[frame.i]
           step == ClassStep(heap[1], product, Get(args.observed, product, Zero),
                             Get(args.availability, product, Zero),
                             frame.total_odemand, frame.host_recapture)
       IN  IF Returned(step)
           THEN /\ heap' = [heap EXCEPT ![1] = step.value]
                /\ frame' = [frame EXCEPT !.i = @ + 1]
                /\ UNCHANGED <<outcome, pc>>
           ELSE /\ outcome' = step
                /\ pc' = "done"
                /\ UNCHANGED <<heap, frame>>
    /\ UNCHANGED <<op, args>>

\* lines 114-117 with calibrate false: the estimates are returned
Class_Return ==
    /\ pc = "loop"
    /\ frame.i > Len(frame.keys)
    /\ ~args.calibrate
    /\ outcome' = Return(1)
    /\ pc' = "done"
    /\ UNCHANGED <<op, args, heap, frame>>

\* lines 114-117 with calibrate true: the calibrated copy is returned
Class_Calibrate ==
    /\ pc = "loop"
    /\ frame.i > Len(frame.keys)
    /\ args.calibrate
    /\ \E np \in BOOLEAN :
          LET r == calibrate_no_booking(heap, 1, args.observed, args.availability,
                                        args.probs, frame.host_spill, np)
          IN  /\ heap' = r.heap
              /\ outcome' = r.outcome
    /\ pc' = "done"
    /\ UNCHANGED <<op, args, frame>>

Call_estimate_class_level ==
    \/ Class_HostLevel
    \/ Class_Loop
    \/ Class_Return
    \/ Class_Calibrate

Call_calibrate_no_booking ==
    /\ pc = "call"
    /\ op = "calibrate_no_booking"
    /\ \E np \in BOOLEAN :
          LET r == calibrate_no_booking(heap, 1, args.observed, args.availability,
                                        args.probs, args.host_spill, np)
          IN  /\ heap' = r.heap
              /\ outcome' = r.outcome
    /\ pc' = "done"
    /\ UNCHANGED <<op, args, frame>>

\* one specification per entry point
SpecMassBalanceH == InitMassBalanceH /\ [][Call_demand_mass_balance_h]_vars
SpecSelectionProbs == InitSelectionProbs /\ [][Call_selection_probs]_vars
SpecClassLevel == InitClassLevel /\ [][Call_estimate_class_level]_vars
SpecCalibrate == InitCalibrate /\ [][Call_calibrate_no_booking]_vars

\* any call of the library
Init == InitMassBalanceH \/ InitSelectionProbs \/ InitClassLevel \/ InitCalibrate

Next ==
    \/ Call_demand_mass_balance_h
    \/ Call_selection_probs
    \/ Call_estimate_class_level
    \/ Call_calibrate_no_booking

Spec == Init /\ [][Next]_vars

(***************************************************************************)
(* Properties.                                                             *)
(***************************************************************************)
Done(f) == pc = "done" /\ op = f

\* sum of the spills of an estimates mapping
SpillSum(est, S) == RSum([p \in S |-> est[p].spill], S)

(***************************************************************************)
(* demand_mass_balance_h                                                   *)
(***************************************************************************)
\* C4: a triple (demand, spill, recapture) returned by demand_mass_balance_h
\* satisfies demand - spill + recapture = odemand, spill = close_prob * demand
\* and recapture = recapture_rate * spill.
C4_HostMassBalance ==
    (Done("demand_mass_balance_h") /\ Returned(outcome)) =>
        LET demand == outcome.value[1]
            spill == outcome.value[2]
            recapture == outcome.value[3]
        IN  /\ RAdd(RSub(demand, spill), recapture) = args.odemand
            /\ spill = RMul(args.close_prob, demand)
            /\ recapture = RMul(args.recapture_rate, spill)

\* a solved triple with positive spill and positive recapture
C4_Witness ==
    /\ Done("demand_mass_balance_h")
    /\ Returned(outcome)
    /\ RLt(Zero, outcome.value[2])
    /\ RLt(Zero, outcome.value[3])
    /\ RLt(args.close_prob, One)
    /\ RLt(args.recapture_rate, One)

\* C10 as stated: with close_prob = 1, and also with recapture_rate = 1, the
\* solve ends in the singular-matrix error whatever the other parameter is.
C10_SingularOnEitherOne ==
    (Done("demand_mass_balance_h")
        /\ (args.close_prob = One \/ args.recapture_rate = One)) =>
        Raised(outcome, "LinAlgError")

\* C10 as amended: the solve ends in the singular-matrix error exactly when
\* close_prob = 1 and recapture_rate = 0 (close_prob * (1 - recapture_rate)
\* = 1), and returns a triple for every other pair of [0, 1].
C10_SingularExactly ==
    Done("demand_mass_balance_h") =>
        /\ Raised(outcome, "LinAlgError") <=>
               (args.close_prob = One /\ args.recapture_rate = Zero)
        /\ Returned(outcome) <=>
               ~(args.close_prob = One /\ args.recapture_rate = Zero)

\* the singular system has been met
C10_Witness ==
    /\ Done("demand_mass_balance_h")
    /\ args.close_prob = One
    /\ args.recapture_rate = Zero
    /\ RLt(Zero, args.odemand)
    /\ Raised(outcome, "LinAlgError")

(***************************************************************************)
(* selection_probs                                                         *)
(***************************************************************************)
\* C5: for a non-empty utility mapping and market_share in (0, 1) the
\* returned probabilities sum to market_share, the no-fly probability is
\* 1 - market_share, and together they sum to 1.
C5_ProbabilityConservation ==
    (Done("selection_probs") /\ DOMAIN args.utilities # {}
        /\ RLt(Zero, args.market_share) /\ RLt(args.market_share, One)) =>
        /\ Returned(outcome)
        /\ REq(SumValues(outcome.value[1]), args.market_share)
        /\ REq(outcome.value[2], RSub(One, args.market_share))
        /\ REq(RAdd(SumValues(outcome.value[1]), outcome.value[2]), One)

\* two products of different utility, market share other than 1/2
C5_Witness ==
    /\ Done("selection_probs")
    /\ Returned(outcome)
    /\ RLt(Zero, args.market_share)
    /\ RLt(args.market_share, Q(1, 2))
    /\ \E p, q \in DOMAIN args.utilities :
          RLt(outcome.value[1][p], outcome.value[1][q])

(***************************************************************************)
(* estimate_class_level                                                    *)
(***************************************************************************)
Observed(p) == Get(args.observed, p, Zero)
Avail(p) == Get(args.availability, p, Zero)

\* the mapping a finished call returned
Result == heap[outcome.value]

\* probs[p] * (1 - availability[p])
W(p) == RMul(args.probs[p], RSub(One, Avail(p)))

\* the host-level spill and recapture the call computed
HostSpill == frame.host_spill
HostRecapture == frame.host_recapture

\* the probabilities sum to 1 with nofly_prob and every observed product is
\* a product of probs
WellFormed ==
    /\ RAdd(SumValues(args.probs), args.nofly_prob) = One
    /\ DOMAIN args.observed \subseteq DOMAIN args.probs

\* C1 as stated, on calls with nofly_prob > 0 as in its example: a call in
\* which some product of probs has availability 0 and observed demand > 0
\* ends by raising InvalidInputParameters.
C1_InvalidInputRaised ==
    (Done("estimate_class_level") /\ RLt(Zero, args.nofly_prob)
        /\ \E p \in DOMAIN args.probs : Avail(p) = Zero /\ RLt(Zero, Observed(p))) =>
        Raised(outcome, "InvalidInputParameters")

\* a calibrated call returned with unaccounted spill > 0: object 1 of the
\* heap holds the class-level estimates before calibration
C2_Case ==
    /\ Done("estimate_class_level")
    /\ args.calibrate
    /\ Returned(outcome)
    /\ RLt(Zero, RSub(HostSpill, SpillSum(heap[1], DOMAIN heap[1])))

\* C2 as stated, on well-formed inputs: whenever a calibrated call returns
\* with unaccounted spill > 0, the returned spills sum to the host-level
\* spill, whether or not a product of probs has zero observed demand.
C2_SpillConserved ==
    (C2_Case /\ WellFormed) => REq(SpillSum(Result, DOMAIN Result), HostSpill)

\* C2 as amended: the returned spills sum to the host-level spill provided
\* some product of probs with zero observed demand has a positive weight
\* probs[p] * (1 - availability[p]).
C2_SpillConservedGivenWeight ==
    (C2_Case /\ \E p \in DOMAIN args.probs : Observed(p) = Zero /\ RLt(Zero, W(p))) =>
        REq(SpillSum(Result, DOMAIN Result), HostSpill)

\* spill was redistributed next to a booked product that keeps its own
C2_Witness ==
    /\ C2_Case
    /\ \E p \in DOMAIN Result : Observed(p) = Zero /\ RLt(Zero, Result[p].spill)
    /\ \E p \in DOMAIN Result : Observed(p) # Zero /\ RLt(Zero, Result[p].spill)
    /\ REq(SpillSum(Result, DOMAIN Result), HostSpill)

\* C3 as stated, on well-formed inputs: the demand returned for a product
\* with observed demand > 0 and availability in (0, 1] is at least the
\* product's observed demand.
C3_DemandAtLeastObserved ==
    (Done("estimate_class_level") /\ Returned(outcome) /\ WellFormed) =>
        \A p \in DOMAIN args.probs :
            (RLt(Zero, Observed(p)) /\ RLt(Zero, Avail(p))) =>
                RLe(Observed(p), Result[p].demand)

\* C3 as amended: for such a product the returned recapture is the pro-rata
\* share host_recapture * observed / total observed, availability * demand
\* = observed - recapture, and so demand >= observed - recapture.
C3_DemandAtLeastNetObserved ==
    (Done("estimate_class_level") /\ Returned(outcome)) =>
        \A p \in DOMAIN args.probs :
            (RLt(Zero, Observed(p)) /\ RLt(Zero, Avail(p))) =>
                /\ Result[p].recapture =
                       RDiv(RMul(HostRecapture, Observed(p)), SumValues(args.observed))
                /\ RMul(Avail(p), Result[p].demand) =
                       RSub(Observed(p), Result[p].recapture)
                /\ RLe(RSub(Observed(p), Result[p].recapture), Result[p].demand)

\* a partly closed booked product with recapture > 0
C3_Witness ==
    /\ Done("estimate_class_level")
    /\ Returned(outcome)
    /\ \E p \in DOMAIN args.probs :
          /\ RLt(Zero, Observed(p))
          /\ RLt(Zero, Avail(p)) /\ RLt(Avail(p), One)
          /\ RLt(Zero, Result[p].recapture)
          /\ RLt(Observed(p), Result[p].demand)

\* C6: a call with calibrate = False that returns gives every key of probs
\* an entry, and the entry (0, 0, 0) to every key whose observed demand is 0
\* or absent.
C6_ZeroDemandDefault ==
    (Done("estimate_class_level") /\ ~args.calibrate /\ Returned(outcome)) =>
        /\ DOMAIN Result = DOMAIN args.probs
        /\ \A p \in DOMAIN args.probs :
              Observed(p) = Zero => Result[p] = Estimate(Zero, Zero, Zero)

\* an uncalibrated result with a booked product, a product booked 0 times
\* and a product absent from observed, while the host-level spill is > 0
C6_Witness ==
    /\ Done("estimate_class_level")
    /\ ~args.calibrate
    /\ Returned(outcome)
    /\ RLt(Zero, HostSpill)
    /\ \E p \in DOMAIN args.probs : RLt(Zero, Observed(p))
    /\ \E p \in DOMAIN args.probs :
          p \notin DOMAIN args.observed /\ Result[p] = Estimate(Zero, Zero, Zero)

(***************************************************************************)
(* calibrate_no_booking, called directly: object 1 of the heap is the      *)
(* caller's estimates mapping, args.estimates its content at the call.     *)
(***************************************************************************)
Unaccounted ==
    RSub(args.host_spill, SpillSum(args.estimates, DOMAIN args.estimates))
ZeroObserved == {p \in DOMAIN args.estimates : Observed(p) = Zero}

\* sum of probs[p] * (1 - availability[p]) over the zero-observed-demand
\* products, all of them keys of probs
WeightSum == RSum([p \in ZeroObserved |-> W(p)], ZeroObserved)

\* C7: the mapping calibrate_no_booking returns agrees with the input
\* estimates on every product with non-zero observed demand, and on every
\* product when unaccounted spill <= 0; the caller's mapping is not modified
\* however the call ends.
C7_CalibrationFrame ==
    Done("calibrate_no_booking") =>
        /\ heap[1] = args.estimates
        /\ Returned(outcome) =>
              /\ DOMAIN Result = DOMAIN args.estimates
              /\ \A p \in DOMAIN args.estimates :
                    Observed(p) # Zero => Result[p] = args.estimates[p]
              /\ ~RLt(Zero, Unaccounted) => Result = args.estimates

\* spill was redistributed next to a booked product with a non-zero record
C7_Witness ==
    /\ Done("calibrate_no_booking")
    /\ Returned(outcome)
    /\ RLt(Zero, Unaccounted)
    /\ Result # args.estimates
    /\ \E p \in DOMAIN args.estimates :
          Observed(p) # Zero /\ RLt(Zero, Result[p].spill)

\* C8 as stated, on non-empty estimates whose zero-observed-demand products
\* are keys of probs: with unaccounted spill > 0 every zero-observed-demand
\* product p gets demand = spill = unaccounted spill * w_p / sum of w_q and
\* keeps its recapture, and the redistributed spills sum to the unaccounted
\* spill.
C8_Redistribution ==
    (Done("calibrate_no_booking") /\ RLt(Zero, Unaccounted)
        /\ DOMAIN args.estimates # {} /\ ZeroObserved \subseteq DOMAIN args.probs) =>
        /\ Returned(outcome)
        /\ \A p \in ZeroObserved :
              /\ REq(Result[p].spill,
                     RMul(Unaccounted,
                          NpDiv(W(p), WeightSum)))
              /\ Result[p].demand = Result[p].spill
              /\ Result[p].recapture = args.estimates[p].recapture
        /\ REq(SpillSum(Result, ZeroObserved), Unaccounted)

\* the zero-observed-demand products are all keys of probs and their weights
\* sum to more than 0
C8_Case ==
    /\ Done("calibrate_no_booking")
    /\ RLt(Zero, Unaccounted)
    /\ ZeroObserved \subseteq DOMAIN args.probs
    /\ RLt(Zero, WeightSum)

\* C8 as amended: the same, provided every zero-observed-demand product is
\* a key of probs and their weights sum to more than 0.
C8_RedistributionGivenWeight ==
    C8_Case =>
        /\ Returned(outcome)
        /\ \A p \in ZeroObserved :
              /\ REq(Result[p].spill,
                     RMul(Unaccounted,
                          RDiv(W(p), WeightSum)))
              /\ Result[p].demand = Result[p].spill
              /\ Result[p].recapture = args.estimates[p].recapture
        /\ REq(SpillSum(Result, ZeroObserved), Unaccounted)

\* two zero-observed-demand products received different shares
C8_Witness ==
    /\ C8_Case
    /\ Returned(outcome)
    /\ \E p, q \in ZeroObserved :
          /\ RLt(Zero, Result[p].spill)
          /\ RLt(Result[p].spill, Result[q].spill)
          /\ RLt(Zero, Avail(p))

\* C9 as stated, on non-empty estimates: with unaccounted spill > 0 and no
\* zero-observed-demand product among the estimates the call ends in a
\* division-by-zero error.
C9_DivisionByZero ==
    (Done("calibrate_no_booking") /\ RLt(Zero, Unaccounted)
        /\ DOMAIN args.estimates # {} /\ ZeroObserved = {}) =>
        Raised(outcome, "ZeroDivisionError")

\* C9 as amended: with unaccounted spill > 0 and no zero-observed-demand
\* product among the estimates the call raises nothing and returns a copy
\* of the estimates, unchanged.
C9_ReturnsUnchanged ==
    (Done("calibrate_no_booking") /\ RLt(Zero, Unaccounted) /\ ZeroObserved = {}) =>
        /\ Returned(outcome)
        /\ outcome.value # 1
        /\ Result = args.estimates

\* such a call, with a booked product, has returned
C9_Witness ==
    /\ Done("calibrate_no_booking")
    /\ RLt(Zero, Unaccounted)
    /\ ZeroObserved = {}
    /\ DOMAIN args.estimates # {}
    /\ Returned(outcome)

====
